---- MODULE Spec2Model ----
(***************************************************************************)
(* A model of the comparison-and-diff engine of alecthomas/assert          *)
(* (src/assert.go): objectsAreEqual, Diff, the option expansion, and the   *)
(* assertion wrappers that call them.                                      *)
(*                                                                         *)
(* Text.  A Go string is modelled as the sequence of its newline-free      *)
(* segments, i.e. as strings.Split(s, "\n"): "hello\nworld" is             *)
(* <<"hello", "world">>, "" is <<"">> and "a\n" is <<"a", "">>.  This is a *)
(* bijection between strings and non-empty sequences of newline-free       *)
(* strings, so equality of texts is equality of strings.                   *)
(***************************************************************************)
EXTENDS Integers, Sequences, FiniteSets, TLC

(***************************************************************************)
(* Bounds of the model.                                                    *)
(***************************************************************************)
\* longest byte sequence drawn as an input
MaxBytes == 2
\* longest list of compare options passed to one call
MaxOpts == 2
\* the longest haystack and the longest needle of a containment call
MaxHaystack == 3
MaxNeedle == 2
\* the longest slice haystack
MaxItems == 2

(***************************************************************************)
(* Text helpers.                                                           *)
(***************************************************************************)
\* the text holding the newline-free string s
Txt(s) == <<s>>

\* the text "\n"
NL == <<"", "">>

\* string concatenation x + y
Cat(x, y) ==
    SubSeq(x, 1, Len(x) - 1) \o <<x[Len(x)] \o y[1]>> \o Tail(y)

Cat3(x, y, z) == Cat(Cat(x, y), z)

RECURSIVE JoinSegs(_, _)
\* the segments of a text joined by the string sep (a single segment)
JoinSegs(x, sep) ==
    IF Len(x) = 1 THEN x[1]
    ELSE x[1] \o sep \o JoinSegs(Tail(x), sep)

(***************************************************************************)
(* Go values.  Every value is a record of one shape; the fields that a     *)
(* type does not use hold a fixed default.                                 *)
(*   type   the dynamic type: "nil" is the untyped nil interface value     *)
(*   isNil  a nil slice ([]byte(nil), []int(nil))                           *)
(*   bytes  the bytes of a []byte; the elements of a []int                 *)
(*   str    a string; the Str field of a Data; the Tag field of an Outer   *)
(*   num    an int64; the Num field of a Data                              *)
(*   inStr, inNum   the Str and Num fields of the In field of an Outer     *)
(***************************************************************************)
MkVal(ty, n, b, s, i, is, in) ==
    [type |-> ty, isNil |-> n, bytes |-> b, str |-> s, num |-> i,
     inStr |-> is, inNum |-> in]

UntypedNil == MkVal("nil", FALSE, <<>>, <<"">>, 0, <<"">>, 0)
NilBytes == MkVal("[]byte", TRUE, <<>>, <<"">>, 0, <<"">>, 0)
Bytes(b) == MkVal("[]byte", FALSE, b, <<"">>, 0, <<"">>, 0)
\* var slice []int and []int{...}                    (src/assert_test.go)
NilInts == MkVal("[]int", TRUE, <<>>, <<"">>, 0, <<"">>, 0)
Ints(e) == MkVal("[]int", FALSE, e, <<"">>, 0, <<"">>, 0)
String(s) == MkVal("string", FALSE, <<>>, s, 0, <<"">>, 0)
Int64(i) == MkVal("int64", FALSE, <<>>, <<"">>, i, <<"">>, 0)
\* type Data struct { Str string; Num int64 }       (src/assert_test.go)
Data(s, i) == MkVal("assert.Data", FALSE, <<>>, s, i, <<"">>, 0)
\* a record nesting a Data: struct { In Data; Tag string }
Outer(d, tag) == MkVal("assert.Outer", FALSE, <<>>, tag, 0, d.str, d.num)

\* the declared fields of the record types, in declaration order
StructFields(ty) ==
    CASE ty = "assert.Data" ->
            <<[name |-> "Str", type |-> "string"], [name |-> "Num", type |-> "int64"]>>
      [] ty = "assert.Outer" ->
            <<[name |-> "In", type |-> "assert.Data"], [name |-> "Tag", type |-> "string"]>>
      [] OTHER -> <<>>

IsStruct(v) == v.type \in {"assert.Data", "assert.Outer"}

\* reflect.Value.Field: the value of the named field of a record
FieldValue(v, name) ==
    CASE v.type = "assert.Data" /\ name = "Str" -> String(v.str)
      [] v.type = "assert.Data" /\ name = "Num" -> Int64(v.num)
      [] v.type = "assert.Outer" /\ name = "In" -> Data(v.inStr, v.inNum)
      [] v.type = "assert.Outer" /\ name = "Tag" -> String(v.str)

\* reflect.Value.IsZero
IsZero(v) ==
    CASE v.type = "nil" -> TRUE
      [] v.type = "[]byte" -> v.isNil
      [] v.type = "[]int" -> v.isNil
      [] v.type = "string" -> v.str = <<"">>
      [] v.type = "int64" -> v.num = 0
      [] v.type = "assert.Data" -> v.str = <<"">> /\ v.num = 0
      [] v.type = "assert.Outer" -> v.str = <<"">> /\ v.inStr = <<"">> /\ v.inNum = 0

(***************************************************************************)
(* Compare options and renderer directives.                                *)
(***************************************************************************)
\* Exclude[T]()
Exclude(ty) == [opt |-> "Exclude", type |-> ty]
\* OmitEmpty()
OmitEmpty == [opt |-> "OmitEmpty", type |-> ""]
\* IgnoreGoStringer()
IgnoreGoStringer == [opt |-> "IgnoreGoStringer", type |-> ""]

\* repr.Indent(s), repr.Hide[T](), repr.OmitEmpty(true), repr.IgnoreGoStringer()
ReprIndent(s) == [dir |-> "Indent", arg |-> s]
ReprHide(ty) == [dir |-> "Hide", arg |-> ty]
ReprOmitEmpty == [dir |-> "OmitEmpty", arg |-> "true"]
ReprIgnoreGoStringer == [dir |-> "IgnoreGoStringer", arg |-> ""]

\* calling a CompareOption: the directives it returns
OptionDirectives(o) ==
    CASE o.opt = "Exclude" -> <<ReprHide(o.type)>>
      [] o.opt = "OmitEmpty" -> <<ReprOmitEmpty>>
      [] o.opt = "IgnoreGoStringer" -> <<ReprIgnoreGoStringer>>

RECURSIVE AppendOptions(_, _)
\* the loop of expandCompareOptions: ropts = append(ropts, option()...)
AppendOptions(ropts, options) ==
    IF options = <<>> THEN ropts
    ELSE AppendOptions(ropts \o OptionDirectives(Head(options)), Tail(options))

\* an expansion in which the last option replaces the ones before it
expandCompareOptions_LastWins(options) ==
    IF options = <<>> THEN <<ReprIndent("  ")>>
    ELSE <<ReprIndent("  ")>> \o OptionDirectives(options[Len(options)])

expandCompareOptions(options) ==
    AppendOptions(<<ReprIndent("  ")>>, options)

(***************************************************************************)
(* The renderer (github.com/alecthomas/repr), as the engine uses it.  The   *)
(* values of the model are plain data: none has a GoString method, so the  *)
(* IgnoreGoStringer directive is recorded by the printer and changes no    *)
(* rendering.                                                              *)
(***************************************************************************)
\* a printer with no directive applied
NewPrinter ==
    [indent |-> "", hidden |-> {}, omitEmpty |-> FALSE, ignoreGoStringer |-> FALSE]

ApplyDirective(p, d) ==
    CASE d.dir = "Indent" -> [p EXCEPT !.indent = d.arg]
      [] d.dir = "Hide" -> [p EXCEPT !.hidden = @ \cup {d.arg}]
      [] d.dir = "OmitEmpty" -> [p EXCEPT !.omitEmpty = TRUE]
      [] d.dir = "IgnoreGoStringer" -> [p EXCEPT !.ignoreGoStringer = TRUE]

RECURSIVE ApplyDirectives(_, _)
\* the directives are applied to the printer in list order
ApplyDirectives(p, ropts) ==
    IF ropts = <<>> THEN p
    ELSE ApplyDirectives(ApplyDirective(p, Head(ropts)), Tail(ropts))

\* the %q escape of one byte of the model's byte alphabet
EscByte(b) == IF b < 10 THEN "\\x0" \o ToString(b) ELSE "\\x" \o ToString(b)

RECURSIVE EscBytes(_)
EscBytes(b) == IF b = <<>> THEN "" ELSE EscByte(Head(b)) \o EscBytes(Tail(b))

\* %q of a string: quoted, with every newline escaped
QuoteString(s) == Txt("\"" \o JoinSegs(s, "\\n") \o "\"")

RECURSIVE reprValue(_, _, _), reprFields(_, _, _, _, _)
RECURSIVE reprFields_HideTopLevelOnly(_, _, _, _, _)
\* fields of a hidden type are skipped in the outermost record only
reprFields_HideTopLevelOnly(p, v, i, indent, previous) ==
    LET fields == StructFields(v.type)
    IN  IF i > Len(fields) THEN Txt("")
        ELSE LET f == FieldValue(v, fields[i].name)
                 ni == indent \o p.indent
                 skip == \/ fields[i].type \in p.hidden /\ indent = ""
                         \/ p.omitEmpty /\ IsZero(f)
             IN  IF skip THEN reprFields_HideTopLevelOnly(p, v, i + 1, indent, previous)
                 ELSE Cat3(Cat3(Txt(IF previous /\ p.indent = "" THEN ", " ELSE ""),
                                Txt(ni \o fields[i].name \o ": "),
                                reprValue(p, f, ni)),
                           IF p.indent # "" THEN Cat(Txt(","), NL) ELSE Txt(""),
                           reprFields_HideTopLevelOnly(p, v, i + 1, indent, TRUE))

\* the rendering of the fields of record v from field i on; previous tells
\* whether a field was already written
reprFields(p, v, i, indent, previous) ==
    LET fields == StructFields(v.type)
    IN  IF i > Len(fields) THEN Txt("")
        ELSE LET f == FieldValue(v, fields[i].name)
                 ni == indent \o p.indent
                 skip == \/ fields[i].type \in p.hidden
                         \/ p.omitEmpty /\ IsZero(f)
             IN  IF skip THEN reprFields(p, v, i + 1, indent, previous)
                 ELSE Cat3(Cat3(Txt(IF previous /\ p.indent = "" THEN ", " ELSE ""),
                                Txt(ni \o fields[i].name \o ": "),
                                reprValue(p, f, ni)),
                           IF p.indent # "" THEN Cat(Txt(","), NL) ELSE Txt(""),
                           reprFields(p, v, i + 1, indent, TRUE))

\* the elements of a slice of integers from the i-th on: one per line under
\* an indent, separated by ", " without one
RECURSIVE reprElems(_, _, _, _)
reprElems(p, e, i, indent) ==
    IF i > Len(e) THEN Txt("")
    ELSE Cat(IF p.indent # ""
             THEN <<indent \o p.indent \o ToString(e[i]) \o ",", "">>
             ELSE Txt(ToString(e[i]) \o (IF i < Len(e) THEN ", " ELSE "")),
             reprElems(p, e, i + 1, indent))

\* Printer.reprValue: nil for the nil interface and for a nil slice,
\* []byte("...") for a byte slice, []int{...} element by element, %q for a
\* string, decimal for an int64, and a record field by field
reprValue(p, v, indent) ==
    CASE v.type = "nil" -> Txt("nil")
      [] v.type = "[]byte" ->
            IF v.isNil THEN Txt("nil")
            ELSE Txt("[]byte(\"" \o EscBytes(v.bytes) \o "\")")
      [] v.type = "[]int" ->
            IF v.isNil THEN Txt("nil")
            ELSE IF Len(v.bytes) = 0 THEN Txt("[]int{}")
            ELSE Cat3(Cat(Txt("[]int{"), IF p.indent # "" THEN NL ELSE Txt("")),
                      reprElems(p, v.bytes, 1, indent),
                      Txt(indent \o "}"))
      [] v.type = "string" -> QuoteString(v.str)
      [] v.type = "int64" -> Txt(ToString(v.num))
      [] OTHER ->
            Cat3(Cat(Txt(v.type \o "{"),
                     IF p.indent # "" /\ Len(StructFields(v.type)) # 0
                     THEN NL ELSE Txt("")),
                 reprFields(p, v, 1, indent, FALSE),
                 Txt(indent \o "}"))

RECURSIVE reprItems(_, _, _)
\* the items of a slice of values from the i-th on, one per line
reprItems(p, items, i) ==
    IF i > Len(items) THEN Txt("")
    ELSE Cat3(Cat(Txt(p.indent), reprValue(p, items[i], p.indent)),
              <<",", "">>,
              reprItems(p, items, i + 1))

\* repr.String(haystack, repr.Indent("  ")) of a slice []T of values
ReprSlice(T, items) ==
    LET p == ApplyDirectives(NewPrinter, <<ReprIndent("  ")>>)
        name == "[]" \o (IF T = "any" THEN "interface {}" ELSE T)
    IN  IF items = <<>> THEN Txt(name \o "{}")
        ELSE Cat3(<<name \o "{", "">>, reprItems(p, items, 1), Txt("}"))

\* repr.String(v, ropts...)
ReprString(v, ropts) == reprValue(ApplyDirectives(NewPrinter, ropts), v, "")

(***************************************************************************)
(* Structural equality.                                                    *)
(***************************************************************************)
\* a comparison that tells a nil slice from an empty one
bytesEqual_NilDistinct(a, b) == a.bytes = b.bytes /\ a.isNil = b.isNil

\* bytes.Equal(a, b): string(a) == string(b); a nil slice converts to ""
bytesEqual(a, b) == a.bytes = b.bytes

\* the generic path renders with no option applied
objectsAreEqual_IgnoresOptions(expected, actual, options) ==
    IF expected.type = "nil" \/ actual.type = "nil"
    THEN expected = actual
    ELSE IF expected.type = "[]byte" /\ actual.type = "[]byte"
    THEN bytesEqual(expected, actual)
    ELSE IF expected.type = "string" /\ actual.type = "string"
    THEN expected.str = actual.str
    ELSE LET ropts == expandCompareOptions(<<>>)
         IN  ReprString(expected, ropts) = ReprString(actual, ropts)

\* the nil check looks at the first argument only
objectsAreEqual_NilExpectedOnly(expected, actual, options) ==
    IF expected.type = "nil"
    THEN expected = actual
    ELSE IF expected.type = "[]byte" /\ actual.type = "[]byte"
    THEN bytesEqual(expected, actual)
    ELSE IF expected.type = "string" /\ actual.type = "string"
    THEN expected.str = actual.str
    ELSE LET ropts == expandCompareOptions(options)
         IN  ReprString(expected, ropts) = ReprString(actual, ropts)

\* a nil argument is never equal to anything
objectsAreEqual_NilNeverEqual(expected, actual, options) ==
    IF expected.type = "nil" \/ actual.type = "nil"
    THEN FALSE
    ELSE IF expected.type = "[]byte" /\ actual.type = "[]byte"
    THEN bytesEqual(expected, actual)
    ELSE IF expected.type = "string" /\ actual.type = "string"
    THEN expected.str = actual.str
    ELSE LET ropts == expandCompareOptions(options)
         IN  ReprString(expected, ropts) = ReprString(actual, ropts)

\* the second value is rendered without the caller's options
objectsAreEqual_ActualUnhidden(expected, actual, options) ==
    IF expected.type = "nil" \/ actual.type = "nil"
    THEN expected = actual
    ELSE IF expected.type = "[]byte" /\ actual.type = "[]byte"
    THEN bytesEqual(expected, actual)
    ELSE IF expected.type = "string" /\ actual.type = "string"
    THEN expected.str = actual.str
    ELSE ReprString(expected, expandCompareOptions(options))
         = ReprString(actual, expandCompareOptions(<<>>))

\* a comparison without the nil check: nil values are compared as rendered
objectsAreEqual_NilByRendering(expected, actual, options) ==
    IF expected.type = "[]byte" /\ actual.type = "[]byte" THEN bytesEqual(expected, actual)
    ELSE IF expected.type = "string" /\ actual.type = "string"
    THEN expected.str = actual.str
    ELSE ReprString(expected, expandCompareOptions(options))
             = ReprString(actual, expandCompareOptions(options))

objectsAreEqual(expected, actual, options) ==
    IF expected.type = "nil" \/ actual.type = "nil"
    THEN expected = actual
    ELSE IF expected.type = "[]byte" /\ actual.type = "[]byte"
    THEN bytesEqual(expected, actual)
    ELSE IF expected.type = "string" /\ actual.type = "string"
    THEN expected.str = actual.str
    ELSE LET ropts == expandCompareOptions(options)
             expectedStr == ReprString(expected, ropts)
             actualStr == ReprString(actual, ropts)
         IN  expectedStr = actualStr

(***************************************************************************)
(* The line diff (gotextdiff: myers.ComputeEdits and ToUnified).           *)
(***************************************************************************)
\* splitLines: the lines of a text; a text ending in a newline has no
\* empty last line
splitLines(text) ==
    IF text[Len(text)] = "" THEN SubSeq(text, 1, Len(text) - 1) ELSE text

RECURSIVE LcsLen(_, _)
\* the length of a longest common subsequence of two line lists
LcsLen(a, b) ==
    IF a = <<>> \/ b = <<>> THEN 0
    ELSE IF Head(a) = Head(b) THEN 1 + LcsLen(Tail(a), Tail(b))
    ELSE LET x == LcsLen(Tail(a), b)
             y == LcsLen(a, Tail(b))
         IN  IF x >= y THEN x ELSE y

RECURSIVE ComputeEdits(_, _)
\* a minimal edit script turning the lines a into the lines b: kept ("="),
\* deleted ("-") and inserted ("+") lines in output order
ComputeEdits(a, b) ==
    IF a = <<>> THEN [i \in 1..Len(b) |-> [kind |-> "+", line |-> b[i]]]
    ELSE IF b = <<>> THEN [i \in 1..Len(a) |-> [kind |-> "-", line |-> a[i]]]
    ELSE IF Head(a) = Head(b)
    THEN <<[kind |-> "=", line |-> Head(a)]>> \o ComputeEdits(Tail(a), Tail(b))
    ELSE IF LcsLen(Tail(a), b) >= LcsLen(a, Tail(b))
    THEN <<[kind |-> "-", line |-> Head(a)]>> \o ComputeEdits(Tail(a), b)
    ELSE <<[kind |-> "+", line |-> Head(b)]>> \o ComputeEdits(a, Tail(b))

\* the number of entries among the first n of ops whose kind is in kinds
CountKinds(ops, n, kinds) ==
    Cardinality({i \in 1..n : ops[i].kind \in kinds})

\* fmt.Sprint(gotextdiff.ToUnified(from, to, content, edits)) as a text:
\* nothing when there is no edit; else the two file lines, the hunk header
\* and the hunk's lines, each ended by a newline.  The renderings of the
\* model have at most 2 * edge + 1 lines, so all changes fall in one hunk.
ToUnified(from, to, ops) ==
    LET changed == {i \in 1..Len(ops) : ops[i].kind # "="}
        \* the lines of context kept on each side of a change
        edge == 3
    IN  IF changed = {} THEN <<"">>
        ELSE LET first == CHOOSE i \in changed : \A j \in changed : i <= j
                 last == CHOOSE i \in changed : \A j \in changed : j <= i
                 lo == IF first - edge < 1 THEN 1 ELSE first - edge
                 hi == IF last + edge > Len(ops) THEN Len(ops) ELSE last + edge
                 hunk == SubSeq(ops, lo, hi)
                 fromLine == CountKinds(ops, lo - 1, {"=", "-"}) + 1
                 toLine == CountKinds(ops, lo - 1, {"=", "+"}) + 1
                 fromCount == CountKinds(hunk, Len(hunk), {"=", "-"})
                 toCount == CountKinds(hunk, Len(hunk), {"=", "+"})
                 range(sign, line, count) ==
                     IF count > 1
                     THEN " " \o sign \o ToString(line) \o "," \o ToString(count)
                     ELSE " " \o sign \o ToString(line)
                 mark(k) == IF k = "=" THEN " " ELSE k
             IN  <<"--- " \o from, "+++ " \o to,
                   "@@" \o range("-", fromLine, fromCount)
                        \o range("+", toLine, toCount) \o " @@">>
                 \o [i \in 1..Len(hunk) |-> mark(hunk[i].kind) \o hunk[i].line]
                 \o <<"">>

(***************************************************************************)
(* Diff.  A call either returns a text or panics.                          *)
(***************************************************************************)
Returned(text) == [panic |-> FALSE, out |-> text]
Panicked == [panic |-> TRUE, out |-> <<"">>]

\* strings.Join(lines, "\n"); joining no line gives ""
JoinLines(lines) == IF lines = <<>> THEN <<"">> ELSE lines

\* a header strip that removes two lines, leaving the hunk header
DiffTexts_StripsTwo(lhss, rhss) ==
    LET edits == ComputeEdits(splitLines(lhss), splitLines(rhss))
        lines == ToUnified("expected.txt", "actual.txt", edits)
    IN  IF Len(lines) < 3 THEN <<"">>
        ELSE JoinLines(SubSeq(lines, 3, Len(lines)))

\* the tail of Diff: the edit script, the unified text, the header strip
DiffTexts(lhss, rhss) ==
    LET edits == ComputeEdits(splitLines(lhss), splitLines(rhss))
        lines == ToUnified("expected.txt", "actual.txt", edits)
    IN  IF Len(lines) < 3 THEN <<"">>
        ELSE JoinLines(SubSeq(lines, 4, Len(lines)))

\* Diff(before, after, compareOptions...): any(after).(string) panics when
\* after does not hold a string
Diff(before, after, compareOptions) ==
    IF before.type = "string"
    THEN IF after.type = "string"
         THEN Returned(DiffTexts(Cat(before.str, NL), Cat(after.str, NL)))
         ELSE Panicked
    ELSE LET ropts == expandCompareOptions(compareOptions)
         IN  Returned(DiffTexts(Cat(ReprString(before, ropts), NL),
                                Cat(ReprString(after, ropts), NL)))

(***************************************************************************)
(* Message formatting and the variadic argument list.                      *)
(***************************************************************************)
\* one variadic argument: a CompareOption or any other value
OptArg(o) == [isOpt |-> TRUE, opt |-> o, val |-> UntypedNil]
MsgArg(v) == [isOpt |-> FALSE, opt |-> [opt |-> "", type |-> ""], val |-> v]

RECURSIVE SelectArgs(_, _)
\* the arguments of a list that are (isOpt = TRUE) or are not compare
\* options, in their order
SelectArgs(args, isOpt) ==
    IF args = <<>> THEN <<>>
    ELSE (IF Head(args).isOpt = isOpt THEN <<Head(args)>> ELSE <<>>)
         \o SelectArgs(Tail(args), isOpt)

extractCompareOptions(msgAndArgs) ==
    [out |-> SelectArgs(msgAndArgs, FALSE),
     compareOptions |-> [i \in 1..Len(SelectArgs(msgAndArgs, TRUE)) |->
                 SelectArgs(msgAndArgs, TRUE)[i].opt]]

\* %v of a string or integer argument
FmtValue(v) == IF v.type = "string" THEN v.str ELSE Txt(ToString(v.num))

\* the argument holds a string: msgAndArgs[0].(string) succeeds
IsStringArg(arg) == ~arg.isOpt /\ arg.val.type = "string"

RECURSIVE FmtExtra(_)
\* the list type=value, type=value, ... of the extra arguments
FmtExtra(vals) ==
    IF vals = <<>> THEN Txt("")
    ELSE Cat3(Cat(Txt(Head(vals).val.type \o "="), FmtValue(Head(vals).val)),
              Txt(IF Len(vals) > 1 THEN ", " ELSE ""),
              FmtExtra(Tail(vals)))

\* fmt.Sprintf(format, args...) for a format without verbs: the format,
\* followed by %!(EXTRA type=value, ...) when arguments are given
Sprintf(format, vals) ==
    IF vals = <<>> THEN format
    ELSE Cat(format, Cat3(Txt("%!(EXTRA "), FmtExtra(vals), Txt(")")))

\* a non-string first argument is ignored instead of refused
formatMsgAndArgs_NoCheck(dflt, msgAndArgs) ==
    IF Len(msgAndArgs) = 0 THEN Returned(dflt)
    ELSE IF ~IsStringArg(Head(msgAndArgs)) THEN Returned(dflt)
    ELSE Returned(Sprintf(Head(msgAndArgs).val.str, Tail(msgAndArgs)))

\* formatMsgAndArgs(dflt, msgAndArgs...): panics when the first message
\* argument is not a string
formatMsgAndArgs(dflt, msgAndArgs) ==
    IF Len(msgAndArgs) = 0 THEN Returned(dflt)
    ELSE IF ~IsStringArg(Head(msgAndArgs)) THEN Panicked
    ELSE Returned(Sprintf(Head(msgAndArgs).val.str, Tail(msgAndArgs)))

(***************************************************************************)
(* The test double and the assertions.  An assertion either panics or      *)
(* returns, and leaves the tester it was given in state t.                 *)
(***************************************************************************)
\* The tester also keeps a history (log) of the calls the assertion made on
\* its behalf, in the order the code makes them.  An entry holds
\*   op       the function called
\*   by       for a rendering: the function that rendered
\*   x, y     the values handed over
\*   options  the compare options handed over
\*   ropts    for a rendering: the directive list handed to the renderer
\*   result   for an equality check: what it returned
Ev(op, by, x, y, options, ropts, result) ==
    [op |-> op, by |-> by, x |-> x, y |-> y, options |-> options,
     ropts |-> ropts, result |-> result]

\* repr.String(v, ropts...) called by the function by
Render(by, v, ropts) == Ev("repr.String", by, v, UntypedNil, <<>>, ropts, FALSE)

\* objectsAreEqual(expected, actual, options...): the call and the
\* renderings it makes, none on the nil, []byte and string paths
objectsAreEqualCalls(expected, actual, options) ==
    <<Ev("objectsAreEqual", "", expected, actual, options, <<>>,
         objectsAreEqual(expected, actual, options))>>
    \o (IF expected.type = "nil" \/ actual.type = "nil" THEN <<>>
        ELSE IF expected.type = "[]byte" /\ actual.type = "[]byte" THEN <<>>
        ELSE IF expected.type = "string" /\ actual.type = "string" THEN <<>>
        ELSE <<Render("objectsAreEqual", expected, expandCompareOptions(options)),
               Render("objectsAreEqual", actual, expandCompareOptions(options))>>)

\* Diff(before, after, compareOptions...): the call and the renderings it
\* makes, none for strings
DiffCalls(before, after, compareOptions) ==
    <<Ev("Diff", "", before, after, compareOptions, <<>>, FALSE)>>
    \o (IF before.type = "string" THEN <<>>
        ELSE <<Render("Diff", before, expandCompareOptions(compareOptions)),
               Render("Diff", after, expandCompareOptions(compareOptions))>>)

\* t.Fatal / t.Fatalf called
FatalCall == Ev("Fatal", "", UntypedNil, UntypedNil, <<>>, <<>>, FALSE)

Log(tester, events) == [tester EXCEPT !.log = @ \o events]

\* a fresh testTester
NewTester == [failed |-> <<"">>, fatals |-> 0, log |-> <<>>]

\* testTester.Fatal / Fatalf: record the message, return
Fatalf(tester, message) ==
    [failed |-> message, fatals |-> tester.fatals + 1,
     log |-> tester.log \o <<FatalCall>>]

Pass(tester) == [panic |-> FALSE, t |-> tester]
Fail(tester, message) == [panic |-> FALSE, t |-> Fatalf(tester, message)]
Panic(tester) == [panic |-> TRUE, t |-> tester]

Compare(x, y, options) == objectsAreEqual(x, y, options)

\* an Equal that computes the diff before it checks equality
Equal_DiffFirst(tester, expected, actual, msgArgsAndCompareOptions) ==
    LET x == extractCompareOptions(msgArgsAndCompareOptions)
        d == Diff(expected, actual, x.compareOptions)
        t1 == Log(tester, DiffCalls(expected, actual, x.compareOptions))
        t2 == Log(t1, objectsAreEqualCalls(expected, actual, x.compareOptions))
        msg == formatMsgAndArgs(Txt("Expected values to be equal:"), x.out)
    IN  IF d.panic THEN Panic(t1)
        ELSE IF objectsAreEqual(expected, actual, x.compareOptions) THEN Pass(t2)
        ELSE IF msg.panic THEN Panic(t2)
        ELSE Fail(t2, Cat3(msg.out, NL, d.out))

Equal(tester, expected, actual, msgArgsAndCompareOptions) ==
    LET x == extractCompareOptions(msgArgsAndCompareOptions)
        t1 == Log(tester, objectsAreEqualCalls(expected, actual, x.compareOptions))
        msg == formatMsgAndArgs(Txt("Expected values to be equal:"), x.out)
        d == Diff(expected, actual, x.compareOptions)
        t2 == Log(t1, DiffCalls(expected, actual, x.compareOptions))
    IN  IF objectsAreEqual(expected, actual, x.compareOptions) THEN Pass(t1)
        ELSE IF msg.panic THEN Panic(t1)
        ELSE IF d.panic THEN Panic(t2)
        ELSE Fail(t2, Cat3(msg.out, NL, d.out))

NotEqual(tester, expected, actual, msgArgsAndCompareOptions) ==
    LET x == extractCompareOptions(msgArgsAndCompareOptions)
        t1 == Log(tester, objectsAreEqualCalls(expected, actual, x.compareOptions))
        msg == formatMsgAndArgs(Txt("Expected values to not be equal but both were:"),
                                x.out)
        t2 == Log(t1, <<Render("NotEqual", expected, <<ReprIndent("  ")>>)>>)
    IN  IF ~objectsAreEqual(expected, actual, x.compareOptions) THEN Pass(t1)
        ELSE IF msg.panic THEN Panic(t1)
        ELSE Fail(t2, Cat3(msg.out, NL,
                           ReprString(expected, <<ReprIndent("  ")>>)))

\* var zero T
ZeroOf(T) ==
    CASE T = "[]byte" -> NilBytes
      [] T = "[]int" -> NilInts
      [] T = "string" -> String(<<"">>)
      [] T = "int64" -> Int64(0)
      [] T = "assert.Data" -> Data(<<"">>, 0)
      [] T = "assert.Outer" -> Outer(Data(<<"">>, 0), <<"">>)
      [] T = "any" -> UntypedNil

\* val.Kind() is Slice, Map or Array and val.Len() == 0
IsEmptyContainer(value) == value.type \in {"[]byte", "[]int"} /\ Len(value.bytes) = 0

Zero(tester, T, value, msgAndArgs) ==
    LET zero == ZeroOf(T)
        t1 == Log(tester, objectsAreEqualCalls(value, zero, <<>>))
        msg == formatMsgAndArgs(Txt("Expected a zero value but got:"), msgAndArgs)
        t2 == Log(t1, <<Render("Zero", value, <<ReprIndent("  ")>>)>>)
    IN  IF objectsAreEqual(value, zero, <<>>) THEN Pass(t1)
        ELSE IF IsEmptyContainer(value) THEN Pass(t1)
        ELSE IF msg.panic THEN Panic(t1)
        ELSE Fail(t2, Cat3(msg.out, NL, ReprString(value, <<ReprIndent("  ")>>)))

\* a NotZero that leaves out the empty-container relaxation
NotZero_NoRelaxation(tester, T, value, msgAndArgs) ==
    LET zero == ZeroOf(T)
        t1 == Log(tester, objectsAreEqualCalls(value, zero, <<>>))
        msg == formatMsgAndArgs(Txt("Did not expect the zero value:"), msgAndArgs)
        t2 == Log(t1, <<Render("NotZero", value, <<>>)>>)
    IN  IF ~objectsAreEqual(value, zero, <<>>) THEN Pass(t1)
        ELSE IF msg.panic THEN Panic(t1)
        ELSE Fail(t2, Cat3(msg.out, NL, ReprString(value, <<>>)))

NotZero(tester, T, value, msgAndArgs) ==
    LET zero == ZeroOf(T)
        t1 == Log(tester, objectsAreEqualCalls(value, zero, <<>>))
        msg == formatMsgAndArgs(Txt("Did not expect the zero value:"), msgAndArgs)
        t2 == Log(t1, <<Render("NotZero", value, <<>>)>>)
    IN  IF ~objectsAreEqual(value, zero, <<>>) /\ ~IsEmptyContainer(value)
        THEN Pass(t1)
        ELSE IF msg.panic THEN Panic(t1)
        ELSE Fail(t2, Cat3(msg.out, NL, ReprString(value, <<>>)))

\* errors.New(message); a nil error is the untyped nil
NewError(message) == MkVal("*errors.errorString", FALSE, <<>>, message, 0, <<"">>, 0)

\* err.Error() called, and err.Error() != errString evaluated
ErrorCall(err) == Ev("err.Error", "", err, UntypedNil, <<>>, <<>>, FALSE)
StringsCompared(x, y) == Ev("!=", "", String(x), String(y), <<>>, <<>>, x = y)

\* an EqualError that returns whenever err is nil
EqualError_NilPasses(tester, err, errString, msgAndArgs) ==
    LET msg == formatMsgAndArgs(Txt("Error message not as expected:"), msgAndArgs)
        d == Diff(String(errString), String(err.str), <<>>)
    IN  IF err.type = "nil" THEN Pass(tester)
        ELSE IF err.str = errString THEN Pass(tester)
        ELSE IF msg.panic THEN Panic(tester)
        ELSE Fail(tester, Cat3(msg.out, NL, d.out))

\* EqualError(t, err, errString, msgAndArgs...).  With a nil err and a
\* non-empty errString the code calls t.Fatal and goes on to err.Error():
\* the tester's Fatal returns, and the call on the nil error panics.
EqualError(tester, err, errString, msgAndArgs) ==
    LET none == formatMsgAndArgs(Txt("Expected an error"), msgAndArgs)
        t1 == Log(tester, <<ErrorCall(err), StringsCompared(err.str, errString)>>)
        msg == formatMsgAndArgs(Txt("Error message not as expected:"), msgAndArgs)
        t2 == Log(t1, <<ErrorCall(err)>>
                      \o DiffCalls(String(errString), String(err.str), <<>>))
        d == Diff(String(errString), String(err.str), <<>>)
    IN  IF err.type = "nil" /\ errString = <<"">> THEN Pass(tester)
        ELSE IF err.type = "nil"
        THEN IF none.panic THEN Panic(tester)
             ELSE Panic(Log(Fatalf(tester, none.out), <<ErrorCall(err)>>))
        ELSE IF err.str = errString THEN Pass(t1)
        ELSE IF msg.panic THEN Panic(t1)
        ELSE Fail(t2, Cat3(msg.out, NL, d.out))

(***************************************************************************)
(* Containment in slices.  A haystack is a sequence of values of type T.   *)
(***************************************************************************)
\* repr.String(haystack, ropts...) called by the function by; the haystack
\* itself is kept in the call
RenderSlice(by) ==
    Ev("repr.String", by, UntypedNil, UntypedNil, <<>>, <<ReprIndent("  ")>>, FALSE)

\* the text after the message: the needle and the haystack rendered
NeedleAndHaystack(T, haystack, needle) ==
    Cat3(Cat(<<"", "Needle: ">>, ReprString(needle, <<ReprIndent("  ")>>)),
         Cat(<<"", "Haystack: ">>, ReprSlice(T, haystack)),
         NL)

RECURSIVE SliceContainsFrom(_, _, _, _, _, _)
\* the loop of SliceContains from the i-th item on, and what follows it
SliceContainsFrom(tester, T, haystack, i, needle, msgAndArgs) ==
    LET msg == formatMsgAndArgs(Txt("Haystack does not contain needle."), msgAndArgs)
        t1 == Log(tester, objectsAreEqualCalls(haystack[i], needle, <<>>))
        t2 == Log(tester, <<Render("SliceContains", needle, <<ReprIndent("  ")>>),
                            RenderSlice("SliceContains")>>)
    IN  IF i > Len(haystack)
        THEN IF msg.panic THEN Panic(tester)
             ELSE Fail(t2, Cat(msg.out, NeedleAndHaystack(T, haystack, needle)))
        ELSE IF objectsAreEqual(haystack[i], needle, <<>>) THEN Pass(t1)
        ELSE SliceContainsFrom(t1, T, haystack, i + 1, needle, msgAndArgs)

\* SliceContains(t, haystack, needle, msgAndArgs...)
SliceContains(tester, T, haystack, needle, msgAndArgs) ==
    SliceContainsFrom(tester, T, haystack, 1, needle, msgAndArgs)

RECURSIVE NotSliceContainsFrom(_, _, _, _, _, _)
\* the loop of NotSliceContains from the i-th item on.  The body of the if
\* ends with t.Fatalf and no return: when Fatalf returns, as the tester's
\* does, the loop goes on to the next item.
NotSliceContainsFrom(tester, T, haystack, i, needle, msgAndArgs) ==
    LET msg == formatMsgAndArgs(Txt("Haystack should not contain needle."), msgAndArgs)
        t1 == Log(tester, objectsAreEqualCalls(haystack[i], needle, <<>>))
        t2 == Log(t1, <<Render("NotSliceContains", needle, <<ReprIndent("  ")>>),
                        RenderSlice("NotSliceContains")>>)
    IN  IF i > Len(haystack) THEN Pass(tester)
        ELSE IF ~objectsAreEqual(haystack[i], needle, <<>>)
        THEN NotSliceContainsFrom(t1, T, haystack, i + 1, needle, msgAndArgs)
        ELSE IF msg.panic THEN Panic(t1)
        ELSE NotSliceContainsFrom(
                 Fatalf(t2, Cat(msg.out, NeedleAndHaystack(T, haystack, needle))),
                 T, haystack, i + 1, needle, msgAndArgs)

\* NotSliceContains(t, haystack, needle, msgAndArgs...)
NotSliceContains(tester, T, haystack, needle, msgAndArgs) ==
    NotSliceContainsFrom(tester, T, haystack, 1, needle, msgAndArgs)

(***************************************************************************)
(* Containment in strings.  A haystack and a needle are sequences of       *)
(* one-character strings, all of one byte.                                 *)
(***************************************************************************)
RECURSIVE Str(_)
\* the characters as one string
Str(chars) == IF chars = <<>> THEN "" ELSE Head(chars) \o Str(Tail(chars))

\* strconv.Quote's escape of one character
EscChar(c) ==
    CASE c = "\n" -> <<"\\", "n">>
      [] c = "\"" -> <<"\\", "\"">>
      [] c = "\\" -> <<"\\", "\\">>
      [] OTHER -> <<c>>

RECURSIVE EscChars(_)
EscChars(chars) ==
    IF chars = <<>> THEN <<>> ELSE EscChar(Head(chars)) \o EscChars(Tail(chars))

\* strconv.Quote(s)
Quote(chars) == <<"\"">> \o EscChars(chars) \o <<"\"">>

\* strings.Contains(s, substr)
StringsContains(s, substr) ==
    \E i \in 1..(Len(s) - Len(substr) + 1) :
        SubSeq(s, i, i + Len(substr) - 1) = substr

\* strings.Repeat(c, n)
Repeat(c, n) == [i \in 1..n |-> c]

RECURSIVE ReplaceAll(_, _, _)
\* strings.ReplaceAll(s, old, new): the non-overlapping occurrences of old,
\* found from the left; an empty old matches before every character and at
\* the end
ReplaceAll(s, old, new) ==
    IF old = <<>>
    THEN IF s = <<>> THEN new ELSE new \o <<Head(s)>> \o ReplaceAll(Tail(s), old, new)
    ELSE IF Len(s) < Len(old) THEN s
    ELSE IF SubSeq(s, 1, Len(old)) = old
    THEN new \o ReplaceAll(SubSeq(s, Len(old) + 1, Len(s)), old, new)
    ELSE <<Head(s)>> \o ReplaceAll(Tail(s), old, new)

\* a needlePosition that marks the first occurrence only
needlePosition_FirstOnly(haystack, needle) ==
    LET quoted == Quote(needle)
        quotedNeedle == SubSeq(quoted, 2, Len(quoted) - 1)
        quotedHaystack == Quote(haystack)
        at(i) == /\ i + Len(quotedNeedle) - 1 <= Len(quotedHaystack)
                 /\ SubSeq(quotedHaystack, i, i + Len(quotedNeedle) - 1) = quotedNeedle
        starts == {i \in 1..Len(quotedHaystack) : at(i)}
        first == IF starts = {} THEN 0
                 ELSE CHOOSE i \in starts : \A j \in starts : i <= j
        rawPositions == [k \in 1..Len(quotedHaystack) |->
                            IF first # 0 /\ first <= k /\ k < first + Len(quotedNeedle)
                            THEN "^" ELSE quotedHaystack[k]]
    IN  [quotedHaystack |-> quotedHaystack, quotedNeedle |-> quotedNeedle,
         positions |-> [i \in 1..Len(rawPositions) |->
                           IF rawPositions[i] # "^" THEN " " ELSE "^"]]

\* needlePosition(haystack, needle)
needlePosition(haystack, needle) ==
    LET quoted == Quote(needle)
        quotedNeedle == SubSeq(quoted, 2, Len(quoted) - 1)
        quotedHaystack == Quote(haystack)
        rawPositions == ReplaceAll(quotedHaystack, quotedNeedle,
                                   Repeat("^", Len(quotedNeedle)))
    IN  [quotedHaystack |-> quotedHaystack, quotedNeedle |-> quotedNeedle,
         positions |-> [i \in 1..Len(rawPositions) |->
                           IF rawPositions[i] # "^" THEN " " ELSE "^"]]

\* Contains(t, haystack, needle, msgAndArgs...)
Contains(tester, haystack, needle, msgAndArgs) ==
    LET msg == formatMsgAndArgs(Txt("Haystack does not contain needle."), msgAndArgs)
    IN  IF StringsContains(haystack, needle) THEN Pass(tester)
        ELSE IF msg.panic THEN Panic(tester)
        ELSE Fail(tester, Cat(msg.out, <<"", "Needle: " \o Str(Quote(needle)),
                                         "Haystack: " \o Str(Quote(haystack)), "">>))

\* NotContains(t, haystack, needle, msgAndArgs...)
NotContains(tester, haystack, needle, msgAndArgs) ==
    LET msg == formatMsgAndArgs(Txt("Haystack should not contain needle."), msgAndArgs)
        p == needlePosition(haystack, needle)
    IN  IF ~StringsContains(haystack, needle) THEN Pass(tester)
        ELSE IF msg.panic THEN Panic(tester)
        ELSE Fail(tester, Cat(msg.out, <<"", "Needle: " \o Str(p.quotedNeedle),
                                         "Haystack: " \o Str(p.quotedHaystack),
                                         "          " \o Str(p.positions), "">>))

True(tester, ok, msgAndArgs) ==
    LET msg == formatMsgAndArgs(Txt("Expected expression to be true"), msgAndArgs)
    IN  IF ok THEN Pass(tester)
        ELSE IF msg.panic THEN Panic(tester)
        ELSE Fail(tester, msg.out)

False(tester, ok, msgAndArgs) ==
    LET msg == formatMsgAndArgs(Txt("Expected expression to be false"), msgAndArgs)
    IN  IF ~ok THEN Pass(tester)
        ELSE IF msg.panic THEN Panic(tester)
        ELSE Fail(tester, msg.out)

(***************************************************************************)
(* The inputs of the calls.                                                *)
(***************************************************************************)
Byte == {2, 4}
ByteSeqs == UNION {[1..n -> Byte] : n \in 0..MaxBytes}
\* the slices of TestZero and TestNotZero
IntSeqs == {<<>>, <<1>>, <<1, 2, 3>>}
Strings == {<<"">>, <<"a">>, <<"b">>, <<"a", "b">>, <<"b", "b">>}
Nums == {0, 1}
DataValues == {Data(s, i) : s \in {<<"">>, <<"a">>, <<"a", "b">>}, i \in Nums}
OuterValues ==
    {Outer(Data(s, i), tag) : s \in {<<"">>, <<"a">>}, i \in Nums,
                              tag \in {<<"">>, <<"t">>}}
\* the values an interface-typed argument is drawn from
AnyValues ==
    {UntypedNil, NilBytes, Bytes(<<>>), Bytes(<<4, 2>>), Ints(<<>>),
     String(<<"a">>), String(<<"">>), Int64(0), Int64(1), Data(<<"a">>, 1),
     Data(<<"a">>, 0)}

\* the static type parameters T of the generic calls
TypeParams ==
    {"[]byte", "[]int", "string", "int64", "assert.Data", "assert.Outer", "any"}

ValuesOf(T) ==
    CASE T = "[]byte" -> {NilBytes} \cup {Bytes(b) : b \in ByteSeqs}
      [] T = "[]int" -> {NilInts} \cup {Ints(e) : e \in IntSeqs}
      [] T = "string" -> {String(s) : s \in Strings}
      [] T = "int64" -> {Int64(i) : i \in Nums}
      [] T = "assert.Data" -> DataValues
      [] T = "assert.Outer" -> OuterValues
      [] T = "any" -> AnyValues

CompareOptions == {Exclude("int64"), Exclude("string"), OmitEmpty, IgnoreGoStringer}
OptionLists == UNION {[1..n -> CompareOptions] : n \in 0..MaxOpts}

\* message arguments: a format string and a non-string
MsgValues == {String(<<"m">>), Int64(123)}
MsgLists == UNION {[1..n -> {MsgArg(v) : v \in MsgValues}] : n \in 0..MaxOpts}
VariadicArgs == {OptArg(o) : o \in CompareOptions} \cup {MsgArg(v) : v \in MsgValues}
ArgLists == UNION {[1..n -> VariadicArgs] : n \in 0..MaxOpts}

\* the message argument lists of the containment calls
ShortMsgLists == {m \in MsgLists : Len(m) <= 1}

\* the characters of haystacks and needles: a letter, a caret, a newline
Chars == {"n", "^", "\n"}
Haystacks == UNION {[1..k -> Chars] : k \in 0..MaxHaystack}
Needles == UNION {[1..k -> Chars] : k \in 0..MaxNeedle}

\* a list of compare options as a variadic argument list
OptArgs(options) == [i \in 1..Len(options) |-> OptArg(options[i])]

(***************************************************************************)
(* State.  A test case holds two values of one static type T, or a         *)
(* haystack and a needle of characters (T = "text"), and a fresh test      *)
(* double (t, the tests' testTester, whose Fatal and Fatalf record the     *)
(* message and return); it makes one call (call) and keeps what the call   *)
(* returned (ret).  An error and a slice haystack are made from the two    *)
(* values when the call is made.                                           *)
(***************************************************************************)
VARIABLES call, ret, t

vars == <<call, ret, t>>

MkCall(fn, T, expected, actual, ok, args) ==
    [fn |-> fn, T |-> T, expected |-> expected, actual |-> actual, ok |-> ok,
     args |-> args, err |-> UntypedNil, haystack |-> <<>>, text |-> <<>>,
     needle |-> <<>>]

\* a call's outcome: panicked or returned; the boolean and the text returned
MkRet(panic, equal, out) == [panic |-> panic, equal |-> equal, out |-> out]

NoRet == MkRet(FALSE, FALSE, <<"">>)

\* no call made yet on the current tester, in a case of two values and in
\* a case of a haystack and a needle
Idle == call.fn = "" /\ call.T \in TypeParams
IdleText == call.fn = "" /\ call.T = "text"

Init ==
    /\ \/ \E T \in TypeParams : \E x, y \in ValuesOf(T) :
              call = MkCall("", T, x, y, FALSE, <<>>)
       \/ \E haystack \in Haystacks : \E needle \in Needles :
              call = [MkCall("", "text", UntypedNil, UntypedNil, FALSE, <<>>)
                         EXCEPT !.text = haystack, !.needle = needle]
    /\ ret = NoRet
    /\ t = NewTester

\* Compare(t, x, y, options...)
CallCompare ==
    /\ Idle
    /\ \E options \in OptionLists :
           /\ call' = [call EXCEPT !.fn = "Compare", !.args = OptArgs(options)]
           /\ ret' = MkRet(FALSE, Compare(call.expected, call.actual, options), <<"">>)
           /\ t' = Log(t, objectsAreEqualCalls(call.expected, call.actual, options))

\* Diff(before, after, compareOptions...)
CallDiff ==
    /\ Idle
    /\ \E options \in OptionLists :
           LET d == Diff(call.expected, call.actual, options)
           IN  /\ call' = [call EXCEPT !.fn = "Diff", !.args = OptArgs(options)]
               /\ ret' = MkRet(d.panic, FALSE, d.out)
               /\ t' = Log(t, DiffCalls(call.expected, call.actual, options))

\* Equal(t, expected, actual, msgArgsAndCompareOptions...)
CallEqual ==
    /\ Idle
    /\ \E args \in ArgLists :
           LET r == Equal(t, call.expected, call.actual, args)
           IN  /\ call' = [call EXCEPT !.fn = "Equal", !.args = args]
               /\ ret' = MkRet(r.panic, FALSE, <<"">>)
               /\ t' = r.t

\* NotEqual(t, expected, actual, msgArgsAndCompareOptions...)
CallNotEqual ==
    /\ Idle
    /\ \E args \in ArgLists :
           LET r == NotEqual(t, call.expected, call.actual, args)
           IN  /\ call' = [call EXCEPT !.fn = "NotEqual", !.args = args]
               /\ ret' = MkRet(r.panic, FALSE, <<"">>)
               /\ t' = r.t

\* Zero(t, value, msgAndArgs...)
CallZero ==
    /\ Idle
    /\ \E args \in MsgLists :
           LET r == Zero(t, call.T, call.expected, args)
           IN  /\ call' = [call EXCEPT !.fn = "Zero", !.args = args]
               /\ ret' = MkRet(r.panic, FALSE, <<"">>)
               /\ t' = r.t

\* NotZero(t, value, msgAndArgs...)
CallNotZero ==
    /\ Idle
    /\ \E args \in MsgLists :
           LET r == NotZero(t, call.T, call.expected, args)
           IN  /\ call' = [call EXCEPT !.fn = "NotZero", !.args = args]
               /\ ret' = MkRet(r.panic, FALSE, <<"">>)
               /\ t' = r.t

\* True(t, ok, msgAndArgs...)
CallTrue ==
    /\ Idle
    /\ \E ok \in BOOLEAN : \E args \in MsgLists :
           LET r == True(t, ok, args)
           IN  /\ call' = [call EXCEPT !.fn = "True", !.ok = ok, !.args = args]
               /\ ret' = MkRet(r.panic, FALSE, <<"">>)
               /\ t' = r.t

\* False(t, ok, msgAndArgs...)
CallFalse ==
    /\ Idle
    /\ \E ok \in BOOLEAN : \E args \in MsgLists :
           LET r == False(t, ok, args)
           IN  /\ call' = [call EXCEPT !.fn = "False", !.ok = ok, !.args = args]
               /\ ret' = MkRet(r.panic, FALSE, <<"">>)
               /\ t' = r.t

\* EqualError(t, err, errString, msgAndArgs...): the expected message is the
\* second string of the case, the error is nil or made from the first
CallEqualError ==
    /\ Idle
    /\ call.T = "string"
    /\ \E err \in {UntypedNil, NewError(call.expected.str)} : \E args \in MsgLists :
           LET r == EqualError(t, err, call.actual.str, args)
           IN  /\ call' = [call EXCEPT !.fn = "EqualError", !.err = err, !.args = args]
               /\ ret' = MkRet(r.panic, FALSE, <<"">>)
               /\ t' = r.t

\* the haystacks of a case: the slices made of its two values
SliceHaystacks ==
    UNION {[1..k -> {call.expected, call.actual}] : k \in 0..MaxItems}

\* SliceContains(t, haystack, needle, msgAndArgs...); the needle is the
\* first value of the case
CallSliceContains ==
    /\ Idle
    /\ \E haystack \in SliceHaystacks : \E args \in ShortMsgLists :
           LET r == SliceContains(t, call.T, haystack, call.expected, args)
           IN  /\ call' = [call EXCEPT !.fn = "SliceContains", !.haystack = haystack,
                                       !.args = args]
               /\ ret' = MkRet(r.panic, FALSE, <<"">>)
               /\ t' = r.t

\* NotSliceContains(t, haystack, needle, msgAndArgs...)
CallNotSliceContains ==
    /\ Idle
    /\ \E haystack \in SliceHaystacks : \E args \in ShortMsgLists :
           LET r == NotSliceContains(t, call.T, haystack, call.expected, args)
           IN  /\ call' = [call EXCEPT !.fn = "NotSliceContains",
                                       !.haystack = haystack, !.args = args]
               /\ ret' = MkRet(r.panic, FALSE, <<"">>)
               /\ t' = r.t

\* Contains(t, haystack, needle, msgAndArgs...)
CallContains ==
    /\ IdleText
    /\ \E args \in ShortMsgLists :
           LET r == Contains(t, call.text, call.needle, args)
           IN  /\ call' = [call EXCEPT !.fn = "Contains", !.args = args]
               /\ ret' = MkRet(r.panic, FALSE, <<"">>)
               /\ t' = r.t

\* NotContains(t, haystack, needle, msgAndArgs...)
CallNotContains ==
    /\ IdleText
    /\ \E args \in ShortMsgLists :
           LET r == NotContains(t, call.text, call.needle, args)
           IN  /\ call' = [call EXCEPT !.fn = "NotContains", !.args = args]
               /\ ret' = MkRet(r.panic, FALSE, <<"">>)
               /\ t' = r.t

\* the test case is run again: a fresh testTester, no call made on it yet
\* (assertOk and assertFail build one tester per case)
NewTest ==
    /\ call.fn # ""
    /\ call' = [call EXCEPT !.fn = "", !.ok = FALSE, !.args = <<>>,
                            !.err = UntypedNil, !.haystack = <<>>]
    /\ ret' = NoRet
    /\ t' = NewTester

Next ==
    \/ CallCompare
    \/ CallDiff
    \/ CallEqual
    \/ CallNotEqual
    \/ CallZero
    \/ CallNotZero
    \/ CallTrue
    \/ CallFalse
    \/ CallEqualError
    \/ CallSliceContains
    \/ CallNotSliceContains
    \/ CallContains
    \/ CallNotContains
    \/ NewTest

Spec == Init /\ [][Next]_vars

(***************************************************************************)
(* Properties.                                                             *)
(***************************************************************************)
\* the compare options and the message arguments of the call made
CallOptions == extractCompareOptions(call.args).compareOptions
CallMsgArgs == extractCompareOptions(call.args).out

BothBytes == call.expected.type = "[]byte" /\ call.actual.type = "[]byte"
BothText == call.expected.type = "string" /\ call.actual.type = "string"
EitherNil == call.expected.type = "nil" \/ call.actual.type = "nil"

\* the fail primitive was invoked
Failed == t.fatals > 0

\* C1: for values a, b of one type and every option list O,
\* objectsAreEqual(a, b, O) is true if and only if Diff(a, b, O) returns the
\* empty string.
C1_EqualIffDiffEmpty ==
    (call.fn = "Diff" /\ call.expected.type = call.actual.type)
        => /\ ~ret.panic
           /\ (ret.out = <<"">>)
                  <=> objectsAreEqual(call.expected, call.actual, CallOptions)

\* C2: when both values are byte sequences, objectsAreEqual is true exactly
\* when they have the same length and the same byte at every index, whatever
\* the options; an empty sequence equals a nil one.
C2_ByteFastPath ==
    (call.fn = "Compare" /\ BothBytes)
        => (ret.equal <=>
               /\ Len(call.expected.bytes) = Len(call.actual.bytes)
               /\ \A i \in 1..Len(call.expected.bytes) :
                      call.expected.bytes[i] = call.actual.bytes[i])

\* an empty byte sequence was compared with a nil one, under some options,
\* and found equal
C2_Witness ==
    /\ call.fn = "Compare"
    /\ call.expected = Bytes(<<>>)
    /\ call.actual = NilBytes
    /\ call.args # <<>>
    /\ ret.equal

\* C3: when neither value is the untyped nil and the two are neither both
\* byte sequences nor both text, objectsAreEqual(a, b, O) is the equality of
\* the renderings of a and b under the directive list derived from O.
C3_GenericPath ==
    (call.fn = "Compare" /\ ~EitherNil /\ ~BothBytes /\ ~BothText)
        => (ret.equal <=>
               ReprString(call.expected, <<ReprIndent("  ")>> \o
                   AppendOptions(<<>>, CallOptions))
               = ReprString(call.actual, <<ReprIndent("  ")>> \o
                   AppendOptions(<<>>, CallOptions)))

\* a byte sequence was compared with a record under some options, by their
\* renderings, and found unequal
C3_Witness ==
    /\ call.fn = "Compare"
    /\ call.expected.type = "[]byte"
    /\ call.actual.type = "assert.Data"
    /\ call.args # <<>>
    /\ ~ret.equal

\* C4: objectsAreEqual(a, b, O) = objectsAreEqual(b, a, O) for values of any
\* mix of kinds.
C4_Symmetry ==
    call.fn = "Compare"
        => ret.equal = objectsAreEqual(call.actual, call.expected, CallOptions)

\* a nil byte sequence was compared with the untyped nil: the first is
\* rendered as the second is, and they are unequal
C4_Witness ==
    /\ call.fn = "Compare"
    /\ call.expected = NilBytes
    /\ call.actual = UntypedNil
    /\ ~ret.equal

\* C5: objectsAreEqual(v, v, O) is true for every value v and option list O.
C5_Reflexivity ==
    (call.fn = "Compare" /\ call.expected = call.actual) => ret.equal

\* the untyped nil was compared with itself under some options
C5_Witness ==
    /\ call.fn = "Compare"
    /\ call.expected = UntypedNil
    /\ call.actual = UntypedNil
    /\ call.args # <<>>
    /\ ret.equal

\* the value v with every field of declared type T, at any depth, blanked
Masked(v, T) ==
    [v EXCEPT !.str = IF T = "string" THEN <<"">> ELSE @,
              !.inStr = IF T = "string" THEN <<"">> ELSE @,
              !.num = IF T = "int64" THEN 0 ELSE @,
              !.inNum = IF T = "int64" THEN 0 ELSE @]

\* the call compares two records of one type under the single option Exclude[T]
ExcludeCall(T) ==
    /\ IsStruct(call.expected)
    /\ call.expected.type = call.actual.type
    /\ call.args = <<OptArg(Exclude(T))>>

\* C6: two records that differ only in fields of declared type T, at any
\* depth, are equal under Exclude[T]: Equal passes and NotEqual fails on
\* them; records that differ in a field of another type stay unequal.
C6_ExcludeHidesFields ==
    \A T \in {"int64", "string"} :
        LET same == Masked(call.expected, T) = Masked(call.actual, T)
        IN  /\ (call.fn = "Compare" /\ ExcludeCall(T)) => (ret.equal <=> same)
            /\ (call.fn = "Equal" /\ ExcludeCall(T))
                   => (~ret.panic /\ (Failed <=> ~same))
            /\ (call.fn = "NotEqual" /\ ExcludeCall(T))
                   => (~ret.panic /\ (Failed <=> same))

\* Equal with Exclude[int64] passed on two records that differ only in an
\* int64 field of a nested record
C6_Witness ==
    /\ call.fn = "Equal"
    /\ call.expected = Outer(Data(<<"a">>, 1), <<"t">>)
    /\ call.actual = Outer(Data(<<"a">>, 0), <<"t">>)
    /\ call.args = <<OptArg(Exclude("int64"))>>
    /\ ~Failed
    /\ ~ret.panic

\* the option list of the call ends in an Exclude
EndsInExclude ==
    /\ CallOptions # <<>>
    /\ CallOptions[Len(CallOptions)].opt = "Exclude"

\* C7: if objectsAreEqual(a, b, O) is true then objectsAreEqual(a, b, O
\* followed by Exclude[T]) is true.
C7_ExcludeMonotone ==
    (/\ call.fn = "Compare"
     /\ EndsInExclude
     /\ objectsAreEqual(call.expected, call.actual,
                        SubSeq(CallOptions, 1, Len(CallOptions) - 1)))
        => ret.equal

\* records equal under Exclude[int64] were compared under Exclude[int64]
\* followed by Exclude[string]
C7_Witness ==
    /\ call.fn = "Compare"
    /\ call.expected = Data(<<"a">>, 1)
    /\ call.actual = Data(<<"a">>, 0)
    /\ call.args = <<OptArg(Exclude("int64")), OptArg(Exclude("string"))>>
    /\ ret.equal

\* C8: for every pair of values and every list of compare options, exactly
\* one of Equal and NotEqual signals a test failure, Equal failing exactly
\* when objectsAreEqual is false.
C8_EqualNotEqualComplement ==
    LET eq == objectsAreEqual(call.expected, call.actual, CallOptions)
    IN  /\ (call.fn = "Equal" /\ CallMsgArgs = <<>>) => (Failed <=> ~eq)
        /\ (call.fn = "NotEqual" /\ CallMsgArgs = <<>>) => (Failed <=> eq)

\* the call is an assertion whose first message argument is not a string
BadMessage ==
    /\ call.fn \in {"Equal", "NotEqual", "Zero", "NotZero", "True", "False"}
    /\ CallMsgArgs # <<>>
    /\ ~IsStringArg(CallMsgArgs[1])

\* the condition the assertion of the call asserts holds
ConditionHolds ==
    LET eq == objectsAreEqual(call.expected, call.actual, CallOptions)
        zero == \/ objectsAreEqual(call.expected, ZeroOf(call.T), <<>>)
                \/ IsEmptyContainer(call.expected)
    IN  CASE call.fn = "Equal" -> eq
          [] call.fn = "NotEqual" -> ~eq
          [] call.fn = "Zero" -> zero
          [] call.fn = "NotZero" -> ~zero
          [] call.fn = "True" -> call.ok
          [] call.fn = "False" -> ~call.ok
          [] OTHER -> TRUE

\* C9 as stated: a non-string first message argument makes the call panic
\* without signalling a failure, whether or not the asserted condition
\* holds.
C9_BadMessageAlwaysPanics ==
    BadMessage => (ret.panic /\ ~Failed)

\* C9 as amended: with a non-string first message argument, the call panics
\* exactly when the asserted condition does not hold, and never signals a
\* failure; when the condition holds it returns normally.
C9_BadMessagePanicsOnFailure ==
    BadMessage => (~Failed /\ (ret.panic <=> ~ConditionHolds))

\* NotZero on a zero record with the message argument 123 panicked
C9_Witness ==
    /\ call.fn = "NotZero"
    /\ call.expected = Data(<<"">>, 0)
    /\ call.args = <<MsgArg(Int64(123))>>
    /\ ret.panic
    /\ ~Failed

\* C10: Diff never faults: for every pair of values of one static type,
\* including an interface type whose first value is text and whose second
\* is not, Diff (and a failing Equal) returns a text, the diff of the
\* structural renderings when the two are not both text.
C10_DiffNeverFaults ==
    /\ call.fn = "Diff" =>
           /\ ~ret.panic
           /\ ~BothText =>
                  ret.out = DiffTexts(
                      Cat(ReprString(call.expected, expandCompareOptions(CallOptions)), NL),
                      Cat(ReprString(call.actual, expandCompareOptions(CallOptions)), NL))
    /\ (call.fn = "Equal" /\ CallMsgArgs = <<>>) => ~ret.panic

\* the relaxed zero relation of the value of a Zero / NotZero call: equal to
\* the zero value of its static type with no options, or a slice of length 0
RelaxedZero ==
    \/ objectsAreEqual(call.expected, ZeroOf(call.T), <<>>)
    \/ (call.expected.type \in {"[]byte", "[]int"} /\ Len(call.expected.bytes) = 0)

\* C11: Zero passes exactly when the value is zero under the relaxed
\* relation, and NotZero signals a failure exactly when Zero passes and
\* passes exactly when Zero fails
C11_ZeroNotZeroComplement ==
    (call.fn \in {"Zero", "NotZero"} /\ ~ret.panic) =>
        /\ call.fn = "Zero" => (~Failed <=> RelaxedZero)
        /\ call.fn = "NotZero" => (Failed <=> RelaxedZero)
        /\ Failed <=> (Zero(NewTester, call.T, call.expected, <<>>).t.fatals = 0
                          <=> call.fn = "NotZero")

\* NotZero fails on an empty, non-nil slice that differs from its zero value
C11_Witness ==
    /\ call.fn = "NotZero"
    /\ call.expected = Ints(<<>>)
    /\ ~objectsAreEqual(call.expected, ZeroOf(call.T), <<>>)
    /\ ~ret.panic
    /\ Failed

\* the first message argument of the call, if any, is a format string
MessageFormats == CallMsgArgs = <<>> \/ IsStringArg(CallMsgArgs[1])

\* C12: EqualError signals no failure exactly when err is nil and the
\* expected message is empty, or err is not nil and err.Error() is the
\* expected message; in every other case it signals a failure.
C12_EqualErrorPasses ==
    (call.fn = "EqualError" /\ MessageFormats) =>
        (~Failed <=>
            \/ call.err.type = "nil" /\ call.actual.str = <<"">>
            \/ call.err.type # "nil" /\ call.err.str = call.actual.str)

\* a nil error with a non-empty expected message signalled a failure
C12_Witness ==
    /\ call.fn = "EqualError"
    /\ call.args = <<>>
    /\ call.err.type = "nil"
    /\ call.actual.str = <<"a">>
    /\ Failed

\* the i-th entry of the history is a rendering made by objectsAreEqual
RenderedByEqual(i) ==
    /\ i \in DOMAIN t.log
    /\ t.log[i].op = "repr.String"
    /\ t.log[i].by = "objectsAreEqual"

\* C13: an equality check with the untyped nil on either side returns true
\* exactly when both sides are the untyped nil, whatever the options, and
\* renders neither value.
C13_NilFastPath ==
    \A i \in DOMAIN t.log :
        (/\ t.log[i].op = "objectsAreEqual"
         /\ (t.log[i].x.type = "nil" \/ t.log[i].y.type = "nil")) =>
            /\ t.log[i].result = (t.log[i].x.type = "nil" /\ t.log[i].y.type = "nil")
            /\ ~RenderedByEqual(i + 1)
            /\ call.fn = "Compare" => ret.equal = t.log[i].result

\* a nil slice compared with the untyped nil under options: not equal
C13_Witness ==
    /\ call.fn = "Compare"
    /\ call.expected = NilBytes
    /\ call.actual = UntypedNil
    /\ CallOptions = <<OmitEmpty>>
    /\ ~ret.equal
    /\ Len(t.log) = 1

\* the call made is an assertion (not Compare or Diff called directly)
AssertionCalled == call.fn \notin {"", "Compare", "Diff"}

\* the positions of the history at which Diff was invoked
DiffPositions == {i \in DOMAIN t.log : t.log[i].op = "Diff"}

\* the j-th entry of the history is an equality check of the pair and the
\* options the i-th entry was called with
ChecksSamePair(j, i) ==
    /\ t.log[j].op \in {"objectsAreEqual", "!="}
    /\ \/ t.log[j].x = t.log[i].x /\ t.log[j].y = t.log[i].y
       \/ t.log[j].x = t.log[i].y /\ t.log[j].y = t.log[i].x
    /\ t.log[j].options = t.log[i].options

\* C15: an assertion invokes Diff at most once, only after an equality
\* check of the same pair under the same options has returned false, and
\* never on a pair judged equal.
C15_DiffAfterFailedCheck ==
    AssertionCalled =>
        /\ Cardinality(DiffPositions) <= 1
        /\ \A i \in DiffPositions :
               /\ \E j \in 1..(i - 1) : ChecksSamePair(j, i) /\ ~t.log[j].result
               /\ \A j \in DOMAIN t.log : ChecksSamePair(j, i) => ~t.log[j].result

\* a failing Equal under options checked equality, then invoked Diff
C15_Witness ==
    /\ call.fn = "Equal"
    /\ CallOptions # <<>>
    /\ Failed
    /\ t.log[1].op = "objectsAreEqual"
    /\ ~t.log[1].result
    /\ DiffPositions # {}

\* the text Diff makes of a value of the call: the string itself when both
\* values are strings, else its rendering; a newline appended
DiffInput(v) ==
    IF BothText THEN Cat(v.str, NL)
    ELSE Cat(ReprString(v, expandCompareOptions(CallOptions)), NL)

\* the formatted unified diff of the call's values, split into lines
UnifiedLines ==
    ToUnified("expected.txt", "actual.txt",
              ComputeEdits(splitLines(DiffInput(call.expected)),
                           splitLines(DiffInput(call.actual))))

\* C16: Diff returns the lines of the unified diff after the first three,
\* joined by newlines; with fewer than three lines (identical renderings)
\* it returns the empty string and takes no slice of the line list.
C16_HeaderStripped ==
    (call.fn = "Diff" /\ ~ret.panic) =>
        IF Len(UnifiedLines) < 3 THEN ret.out = <<"">>
        ELSE /\ UnifiedLines = SubSeq(UnifiedLines, 1, 3) \o ret.out
             /\ UnifiedLines[1] = "--- expected.txt"
             /\ UnifiedLines[2] = "+++ actual.txt"
             /\ \A i \in DOMAIN ret.out :
                    ret.out[i] \notin {UnifiedLines[1], UnifiedLines[2], UnifiedLines[3]}

\* a diff of two different records: a hunk follows the stripped header
C16_Witness ==
    /\ call.fn = "Diff"
    /\ call.expected = Data(<<"a">>, 0)
    /\ call.actual = Data(<<"a">>, 1)
    /\ CallOptions = <<>>
    /\ Len(UnifiedLines) > 3
    /\ Len(ret.out) = Len(UnifiedLines) - 3

\* needlePosition was called: NotContains found the needle and went on to
\* build its message
MarkerBuilt == call.fn = "NotContains" /\ Failed

\* what needlePosition returned to the call
Marked == needlePosition(call.text, call.needle)

\* the quoted needle stands in the quoted haystack from position i on
QuotedNeedleAt(i) ==
    /\ i + Len(Marked.quotedNeedle) - 1 <= Len(Marked.quotedHaystack)
    /\ SubSeq(Marked.quotedHaystack, i, i + Len(Marked.quotedNeedle) - 1)
           = Marked.quotedNeedle

RECURSIVE ScanFrom(_)
\* the starts of the occurrences of a non-empty quoted needle that a scan of
\* the quoted haystack from position i finds, resuming after each occurrence
ScanFrom(i) ==
    IF Marked.quotedNeedle = <<>> \/ i > Len(Marked.quotedHaystack) THEN {}
    ELSE IF QuotedNeedleAt(i) THEN {i} \cup ScanFrom(i + Len(Marked.quotedNeedle))
    ELSE ScanFrom(i + 1)

\* position k lies in the occurrence that starts at i
Covers(i, k) == i <= k /\ k < i + Len(Marked.quotedNeedle)

\* the message holds the three results on its Needle, Haystack and marker
\* lines
MessageShowsMarker ==
    /\ Len(t.failed) >= 5
    /\ SubSeq(t.failed, Len(t.failed) - 3, Len(t.failed))
           = <<"Needle: " \o Str(Marked.quotedNeedle),
               "Haystack: " \o Str(Marked.quotedHaystack),
               "          " \o Str(Marked.positions), "">>

RECURSIVE Origins(_, _)
\* for each character of the escaped haystack, the index of the haystack
\* character it was made from, the haystack given from its j-th character on
Origins(chars, j) ==
    IF chars = <<>> THEN <<>>
    ELSE [i \in 1..Len(EscChar(Head(chars))) |-> j] \o Origins(Tail(chars), j + 1)

\* the same for the quoted haystack; 0 for the surrounding quotes
Origin == <<0>> \o Origins(call.text, 1) \o <<0>>

\* the j-th character of the haystack lies inside an occurrence of the needle
InsideNeedle(j) ==
    \E i \in 1..Len(call.text) :
        /\ i <= j /\ j < i + Len(call.needle)
        /\ i + Len(call.needle) - 1 <= Len(call.text)
        /\ SubSeq(call.text, i, i + Len(call.needle) - 1) = call.needle

\* C20: the marker line has one character, a space or a caret, for each
\* character of the quoted haystack, and a caret only at a position made
\* from a haystack character inside an occurrence of the needle: never
\* under a caret of the haystack outside the needle, a quote, or an escape.
C20_NoFalseCarets ==
    MarkerBuilt =>
        /\ Len(Marked.positions) = Len(Marked.quotedHaystack)
        /\ \A k \in DOMAIN Marked.positions :
               /\ Marked.positions[k] \in {" ", "^"}
               /\ Marked.positions[k] = "^" =>
                      (Origin[k] # 0 /\ InsideNeedle(Origin[k]))

\* the positions of the compare options among the variadic arguments, and
\* the rank of such a position among them
OptionPositions == {i \in DOMAIN call.args : call.args[i].isOpt}
OptionRank(i) == Cardinality({j \in OptionPositions : j <= i})

\* the renderings the equality check and the diff of the call made
ComparisonRenderings ==
    {i \in DOMAIN t.log : /\ t.log[i].op = "repr.String"
                          /\ t.log[i].by \in {"objectsAreEqual", "Diff"}}

C19_FailsOnce ==
    AssertionCalled =>
        /\ t.fatals <= 1
        /\ Failed => ~ret.panic
        /\ \A i \in DOMAIN t.log :
               t.log[i].op = "Fatal" =>
                   \A j \in (i + 1)..Len(t.log) :
                       ~(t.log[j].op = "err.Error" /\ t.log[j].x.type = "nil")
====
